---- MODULE Spec2Model ----
(***************************************************************************)
(* Agent registry of codex-rs/core/src/agent.rs: the path guard            *)
(* (validate_prompt_path), the bulk load (AgentRegistry::new with its      *)
(* nested load_agents_from) and the read operations over the registry.     *)
(*                                                                         *)
(* Paths are sequences of components as std::path::Path sees them: an      *)
(* absolute path starts with the root component "/".  Option<T> is a       *)
(* sequence of length at most one: None is <<>>, Some(x) is <<x>>.         *)
(* Strings that the code trims or lower-cases are sequences of characters. *)
(***************************************************************************)
EXTENDS Integers, Sequences, FiniteSets, TLC

VARIABLES
    \* the registry and its environment
    world, projToml, homeToml, pc, agents, agents_dir, guard, reads, passed, last,
    \* a call of AgentConfig::permissions_policy
    permInput, policy,
    \* a call context's metadata and the spawn checks on it
    metadata, marks, spawn,
    \* the prompt directories and what discovery found in them
    projDir, homeDir, exclude, discovered, discoveredPrev,
    \* the agent popup
    query, rows, lastCall

regVars == <<world, projToml, homeToml, pc, agents, agents_dir, guard, reads, passed, last>>
permVars == <<permInput, policy>>
spawnVars == <<metadata, marks, spawn>>
promptVars == <<projDir, homeDir, exclude, discovered, discoveredPrev>>
popupVars == <<query, rows, lastCall>>

vars == <<regVars, permVars, spawnVars, promptVars, popupVars>>

None == <<>>
Some(x) == <<x>>
IsSome(o) == Len(o) = 1
IsNone(o) == Len(o) = 0
Unwrap(o) == o[1]

(***************************************************************************)
(* The environment: the directories the process runs in.                   *)
(***************************************************************************)
\* Bound on the symbolic links one resolution follows.
MaxSymlinks == 4

Cwd == <<"/", "proj">>
HomeDir == <<"/", "home">>
ProjectRoot == Cwd \o <<".codex">>
HomeRoot == HomeDir \o <<".codex">>
DataRoot == <<"/", "data", "codex">>
Passwd == <<"/", "etc", "passwd">>

Dir == [kind |-> "dir", target |-> <<>>, text |-> None]
Link(t) == [kind |-> "link", target |-> t, text |-> None]
\* a regular file; text is None when the bytes are not valid UTF-8
File(t) == [kind |-> "file", target |-> <<>>, text |-> t]

\* A world: homeLinked - ~/.codex is a symbolic link to /data/codex;
\* projExists - <cwd>/.codex exists; envHome - HOME (or USERPROFILE) is set;
\* dirsHome - dirs::home_dir() finds a home directory (it reads HOME first).
Worlds ==
    { w \in [homeLinked : BOOLEAN, projExists : BOOLEAN, envHome : BOOLEAN, dirsHome : BOOLEAN] :
        w.envHome => w.dirsHome }

PersonalFiles(at) ==
    (at :> Dir) @@ ((at \o <<"h.txt">>) :> File(Some("HOME PROMPT")))

FS(w) ==
    (<<"/">> :> Dir)
    @@ (<<"/", "etc">> :> Dir) @@ (Passwd :> File(Some("root:x:0:0")))
    @@ (Cwd :> Dir) @@ (HomeDir :> Dir)
    @@ (IF w.projExists
        THEN (ProjectRoot :> Dir)
             @@ ((ProjectRoot \o <<"p.txt">>) :> File(Some("PROJECT PROMPT")))
             @@ ((ProjectRoot \o <<"bin.txt">>) :> File(None))
             @@ ((ProjectRoot \o <<"evil">>) :> Link(Passwd))
        ELSE <<>>)
    @@ (IF w.homeLinked
        THEN (HomeRoot :> Link(DataRoot)) @@ (<<"/", "data">> :> Dir) @@ PersonalFiles(DataRoot)
        ELSE PersonalFiles(HomeRoot))

\* the result of a failed resolution (no path is empty)
NoPath == <<>>

Front(s) == SubSeq(s, 1, Len(s) - 1)

\* std::fs::canonicalize (realpath): walks the components, following links.
RECURSIVE Resolve(_, _, _, _)
Resolve(fs, cur, rest, fuel) ==
    IF rest = <<>> THEN cur
    ELSE IF fuel = 0 THEN NoPath
    ELSE LET c == Head(rest)
             tl == Tail(rest)
         IN  IF c = "/" THEN Resolve(fs, <<"/">>, tl, fuel)
             ELSE IF c = ".." THEN Resolve(fs, IF Len(cur) > 1 THEN Front(cur) ELSE cur, tl, fuel)
             ELSE LET nxt == Append(cur, c)
                  IN  IF nxt \notin DOMAIN fs THEN NoPath
                      ELSE IF fs[nxt].kind = "link"
                           THEN Resolve(fs, <<>>, fs[nxt].target \o tl, fuel - 1)
                      ELSE IF fs[nxt].kind = "file" /\ tl # <<>> THEN NoPath
                      ELSE Resolve(fs, nxt, tl, fuel)

Canonicalize(fs, path) ==
    Resolve(fs, <<>>, IF Len(path) > 0 /\ Head(path) = "/" THEN path ELSE Cwd \o path, MaxSymlinks)

\* Path::starts_with: whole components, never a string prefix
StartsWith(p, base) == Len(base) <= Len(p) /\ SubSeq(p, 1, Len(base)) = base

IsAbsolute(req) == Len(req) > 0 /\ Head(req) = "/"

\* Path::join: an absolute argument replaces the base
Join(base, req) == IF IsAbsolute(req) THEN req ELSE base \o req

\* std::fs::read_to_string: None when the path does not resolve to a regular
\* file of valid UTF-8
ReadToString(fs, path) ==
    LET c == Canonicalize(fs, path)
    IN  IF c = NoPath THEN None
        ELSE IF fs[c].kind # "file" THEN None
        ELSE fs[c].text

Ok(p) == [ok |-> TRUE, path |-> p, err |-> "none"]
Err(e) == [ok |-> FALSE, path |-> NoPath, err |-> e]

\* dirs::home_dir()
DirsHomeDir(w) == IF w.dirsHome THEN Some(HomeDir) ELSE None

\* AgentRegistry::validate_prompt_path
ValidatePromptPath(w, base_dir, prompt_file) ==
    LET path == IF IsAbsolute(prompt_file) THEN prompt_file ELSE base_dir \o prompt_file
        canonical == Canonicalize(FS(w), path)
        base_try == Canonicalize(FS(w), base_dir)
        base_canonical == IF base_try = NoPath THEN base_dir ELSE base_try
    IN  IF canonical = NoPath THEN Err("security")
        ELSE IF IsNone(DirsHomeDir(w)) THEN Err("nohome")
        ELSE LET home_codex == Unwrap(DirsHomeDir(w)) \o <<".codex">>
             IN  IF ~StartsWith(canonical, base_canonical) /\ ~StartsWith(canonical, home_codex)
                 THEN Err("security")
                 ELSE Ok(canonical)

(***************************************************************************)
(* Strings the code trims or lower-cases, as sequences of characters.      *)
(***************************************************************************)
IsSpace(c) == c \in {" ", "\t"}

RECURSIVE TrimStart(_)
TrimStart(s) == IF s # <<>> /\ IsSpace(Head(s)) THEN TrimStart(Tail(s)) ELSE s

RECURSIVE TrimEnd(_)
TrimEnd(s) == IF s # <<>> /\ IsSpace(s[Len(s)]) THEN TrimEnd(Front(s)) ELSE s

\* str::trim
Trim(s) == TrimEnd(TrimStart(s))

UpperToLower ==
    ("A" :> "a") @@ ("B" :> "b") @@ ("C" :> "c") @@ ("D" :> "d") @@ ("E" :> "e")
    @@ ("F" :> "f") @@ ("G" :> "g") @@ ("H" :> "h") @@ ("I" :> "i") @@ ("J" :> "j")
    @@ ("K" :> "k") @@ ("L" :> "l") @@ ("M" :> "m") @@ ("N" :> "n") @@ ("O" :> "o")
    @@ ("P" :> "p") @@ ("Q" :> "q") @@ ("R" :> "r") @@ ("S" :> "s") @@ ("T" :> "t")
    @@ ("U" :> "u") @@ ("V" :> "v") @@ ("W" :> "w") @@ ("X" :> "x") @@ ("Y" :> "y")
    @@ ("Z" :> "z")

\* str::to_ascii_lowercase
ToAsciiLowercase(s) ==
    [i \in DOMAIN s |-> IF s[i] \in DOMAIN UpperToLower THEN UpperToLower[s[i]] ELSE s[i]]

\* str::eq_ignore_ascii_case
EqIgnoreAsciiCase(s, t) == ToAsciiLowercase(s) = ToAsciiLowercase(t)

W_read == <<"r", "e", "a", "d">>
W_only == <<"o", "n", "l", "y">>
W_danger == <<"d", "a", "n", "g", "e", "r">>
W_full == <<"f", "u", "l", "l">>
W_access == <<"a", "c", "c", "e", "s", "s">>
W_workspace == <<"w", "o", "r", "k", "s", "p", "a", "c", "e">>
W_write == <<"w", "r", "i", "t", "e">>
W_network == <<"n", "e", "t", "w", "o", "r", "k">>
W_inherit == <<"i", "n", "h", "e", "r", "i", "t">>
Dash == <<"-">>

ReadOnly == [kind |-> "ReadOnly", network_access |-> FALSE]
DangerFullAccess == [kind |-> "DangerFullAccess", network_access |-> FALSE]
\* SandboxPolicy::new_workspace_write_policy() has network_access false
WorkspaceWrite(net) == [kind |-> "WorkspaceWrite", network_access |-> net]

\* variant of the parser: the text is matched as written, case and all
ParseCaseSensitive(value) ==
    IF Trim(value) = W_read \o Dash \o W_only THEN Some(ReadOnly)
    ELSE IF Trim(value) = W_danger \o Dash \o W_full \o Dash \o W_access THEN Some(DangerFullAccess)
    ELSE IF Trim(value) = W_workspace \o Dash \o W_write THEN Some(WorkspaceWrite(FALSE))
    ELSE IF Trim(value) = W_workspace \o Dash \o W_write \o <<"+">> \o W_network
    THEN Some(WorkspaceWrite(TRUE))
    ELSE None

\* parse_permissions_policy: Some(policy), or None for the error
parse_permissions_policy(value) ==
    LET normalized == ToAsciiLowercase(Trim(value))
    IN  IF normalized \in {W_read \o Dash \o W_only, W_read \o W_only}
        THEN Some(ReadOnly)
        ELSE IF normalized \in {W_danger \o Dash \o W_full \o Dash \o W_access,
                                W_danger \o W_full \o W_access}
        THEN Some(DangerFullAccess)
        ELSE IF normalized \in {W_workspace \o Dash \o W_write, W_workspace \o W_write}
        THEN Some(WorkspaceWrite(FALSE))
        ELSE IF normalized \in {W_workspace \o Dash \o W_write \o <<"+">> \o W_network,
                                W_workspace \o Dash \o W_write \o Dash \o W_network,
                                W_workspace \o Dash \o W_write \o <<":">> \o W_network,
                                W_workspace \o W_write \o <<"+">> \o W_network}
        THEN Some(WorkspaceWrite(TRUE))
        ELSE None

\* AgentConfig::permissions_policy: [ok, policy]; ok is FALSE for the error
permissions_policy(config) ==
    IF IsNone(config.permissions) THEN [ok |-> TRUE, policy |-> None]
    ELSE LET trimmed == Trim(Unwrap(config.permissions))
         IN  IF trimmed = <<>> \/ EqIgnoreAsciiCase(trimmed, W_inherit)
             THEN [ok |-> TRUE, policy |-> None]
             ELSE LET parsed == parse_permissions_policy(trimmed)
                  IN  [ok |-> IsSome(parsed), policy |-> parsed]

(***************************************************************************)
(* AgentConfig                                                             *)
(***************************************************************************)
AgentConfig(prompt, prompt_file, model, permissions) ==
    [prompt |-> prompt, prompt_file |-> prompt_file, tools |-> None, model |-> model,
     reasoning_effort |-> None, permissions |-> permissions]

\* variant of validate: both fields set is accepted
ValidateAcceptsBoth(config) == ~(IsNone(config.prompt) /\ IsNone(config.prompt_file))

\* AgentConfig::validate: TRUE for Ok(())
validate(config) ==
    IF IsNone(config.prompt) /\ IsNone(config.prompt_file) THEN FALSE
    ELSE IF IsSome(config.prompt) /\ IsSome(config.prompt_file) THEN FALSE
    ELSE TRUE

(***************************************************************************)
(* The bulk load                                                           *)
(***************************************************************************)
DefaultPrompt == "You are a helpful AI assistant. Complete the given task efficiently and accurately."
FallbackPrompt == "You are a helpful AI assistant."

\* the built-in agent AgentRegistry::new seeds the registry with
DefaultAgent == AgentConfig(Some(DefaultPrompt), None, None, None)

EmptyMap == <<>>

\* the prompt of an entry after the load: the text of prompt_file when the
\* path passes the guard and the file reads, the entry's own prompt otherwise
LoadedPrompt(w, root, config) ==
    IF IsNone(config.prompt_file) THEN config.prompt
    ELSE LET safe_path == ValidatePromptPath(w, root, Unwrap(config.prompt_file))
         IN  IF ~safe_path.ok THEN config.prompt
             ELSE LET prompt == ReadToString(FS(w), safe_path.path)
                  IN  IF IsSome(prompt) THEN prompt ELSE config.prompt

\* the model of an entry after the load: trimmed, None when blank
LoadedModel(config) ==
    IF IsNone(config.model) THEN None
    ELSE IF Trim(Unwrap(config.model)) = <<>> THEN None
    ELSE Some(Trim(Unwrap(config.model)))

\* the permissions of an entry after the load: cleared when they do not parse
LoadedPermissions(config) ==
    IF IsSome(config.permissions) /\ ~permissions_policy(config).ok THEN None
    ELSE config.permissions

\* the body of the loop of load_agents_from, for an entry that validates
LoadEntry(w, root, config) ==
    [config EXCEPT !.prompt = LoadedPrompt(w, root, config),
                   !.model = LoadedModel(config),
                   !.permissions = LoadedPermissions(config)]

\* variant of the load: a file that does not parse still contributes
LoadAgentsLenient(w, root, toml) ==
    IF toml.status \in {"missing", "unreadable"} THEN EmptyMap
    ELSE [name \in {n \in DOMAIN toml.entries : validate(toml.entries[n])} |->
            LoadEntry(w, root, toml.entries[name])]

\* load_agents_from: a root's contribution.  toml is the agents.toml under
\* root: status "missing", "unreadable", "malformed" or "ok", and the
\* entries the parser gives (for a file that fails, what it would have given)
load_agents_from(w, root, toml) ==
    IF toml.status = "missing" THEN EmptyMap
    ELSE IF toml.status = "unreadable" THEN EmptyMap
    ELSE IF toml.status = "malformed" THEN EmptyMap
    ELSE [name \in {n \in DOMAIN toml.entries : validate(toml.entries[n])} |->
            LoadEntry(w, root, toml.entries[name])]

\* the paths load_agents_from hands to the guard and the guard returns
LoadPassed(w, root, toml) ==
    IF toml.status # "ok" THEN {}
    ELSE { ValidatePromptPath(w, root, Unwrap(toml.entries[n].prompt_file)).path :
             n \in { m \in DOMAIN toml.entries :
                       /\ validate(toml.entries[m])
                       /\ IsSome(toml.entries[m].prompt_file)
                       /\ ValidatePromptPath(w, root, Unwrap(toml.entries[m].prompt_file)).ok } }

\* the files whose content load_agents_from reads as a prompt
LoadReads(w, root, toml) ==
    { p \in LoadPassed(w, root, toml) : IsSome(ReadToString(FS(w), p)) }

\* AgentRegistry::get_agents_directory
get_agents_directory(w) == IF w.envHome THEN Some(HomeRoot) ELSE None

\* variants of the merge: the personal entries win; the personal entries are lost
MergedPersonalFirst(project, personal) == personal @@ project
MergedProjectOnly(project, personal) == project

\* the merge of AgentRegistry::new: project entries are inserted, personal
\* entries only under names not yet present (entry().or_insert)
Merged(project, personal) == project @@ personal

\* variants of the build: the seed is never replaced; there is no seed
NewAgentsKeepSeed(w, pt, ht) ==
    ("general" :> DefaultAgent)
    @@ load_agents_from(w, ProjectRoot, pt)
    @@ (IF w.envHome THEN load_agents_from(w, HomeRoot, ht) ELSE EmptyMap)
NewAgentsNoSeed(w, pt, ht) ==
    load_agents_from(w, ProjectRoot, pt)
    @@ (IF w.envHome THEN load_agents_from(w, HomeRoot, ht) ELSE EmptyMap)

\* the registry AgentRegistry::new builds
NewAgents(w, pt, ht) ==
    LET seed == ("general" :> DefaultAgent)
        home_root == get_agents_directory(w)
        project == load_agents_from(w, ProjectRoot, pt)
        personal == IF IsSome(home_root) THEN load_agents_from(w, Unwrap(home_root), ht)
                    ELSE EmptyMap
    IN  Merged(project, personal) @@ seed

PathExists(w, path) == Canonicalize(FS(w), path) # NoPath

NewAgentsDir(w) ==
    IF PathExists(w, ProjectRoot) THEN Some(ProjectRoot) ELSE get_agents_directory(w)

\* variant of the lookup: an agent without a prompt falls back to general
GetSystemPromptViaGeneral(registry, agent_name) ==
    IF agent_name \in DOMAIN registry /\ IsSome(registry[agent_name].prompt)
    THEN Unwrap(registry[agent_name].prompt)
    ELSE IF "general" \in DOMAIN registry /\ IsSome(registry["general"].prompt)
    THEN Unwrap(registry["general"].prompt)
    ELSE FallbackPrompt

\* AgentRegistry::get_system_prompt
get_system_prompt(registry, agent_name) ==
    LET found == IF agent_name \in DOMAIN registry THEN Some(registry[agent_name])
                 ELSE IF "general" \in DOMAIN registry THEN Some(registry["general"])
                 ELSE None
        prompt == IF IsSome(found) THEN Unwrap(found).prompt ELSE None
    IN  IF IsSome(prompt) THEN Unwrap(prompt) ELSE FallbackPrompt

\* AgentConfig::get_prompt: the result (None for the error), the config
\* afterwards and the file whose content it read, if any
get_prompt(w, config, dir) ==
    IF IsSome(config.prompt)
    THEN [out |-> config.prompt, config |-> config, read |-> {}]
    ELSE IF IsSome(config.prompt_file)
    THEN LET full_path == IF IsSome(dir) THEN Join(Unwrap(dir), Unwrap(config.prompt_file))
                          ELSE Unwrap(config.prompt_file)
             prompt_content == ReadToString(FS(w), full_path)
         IN  IF IsNone(prompt_content)
             THEN [out |-> None, config |-> config, read |-> {}]
             ELSE [out |-> prompt_content,
                   config |-> [config EXCEPT !.prompt = prompt_content],
                   read |-> {Canonicalize(FS(w), full_path)}]
    ELSE [out |-> None, config |-> config, read |-> {}]

(***************************************************************************)
(* Inputs                                                                  *)
(***************************************************************************)
\* Bound on the entries of the two agents.toml files together.
MaxEntries == 2

Names == {"general", "reviewer", "builder"}

PaddedModel == <<" ", "o", "3", " ">>
BlankModel == <<" ", " ">>
ReadOnlyText == <<"R", "e", "a", "d", "-", "O", "n", "l", "y", " ">>
BogusText == <<"b", "o", "g", "u", "s">>

ConfigSamples ==
    { AgentConfig(Some("You are a code reviewer. Be terse."), None, Some(PaddedModel), Some(ReadOnlyText)),
      AgentConfig(None, Some(<<"p.txt">>), Some(BlankModel), Some(BogusText)),
      AgentConfig(None, Some(<<"/", "home", ".codex", "h.txt">>), None, None),
      AgentConfig(None, Some(Passwd), None, None),
      AgentConfig(None, None, None, None),
      AgentConfig(Some("You are both."), Some(<<"p.txt">>), None, None) }

MapsUpTo(n) ==
    UNION { [S -> ConfigSamples] : S \in { T \in SUBSET Names : Cardinality(T) <= n } }

MissingToml == [status |-> "missing", entries |-> EmptyMap]

\* a file that cannot be read or parsed holds at most one entry
TomlsUpTo(n) ==
    {MissingToml}
    \cup { [status |-> "ok", entries |-> m] : m \in MapsUpTo(n) }
    \cup { [status |-> st, entries |-> m] :
             st \in {"unreadable", "malformed"}, m \in MapsUpTo(IF n > 0 THEN 1 ELSE 0) }

Size(toml) == Cardinality(DOMAIN toml.entries)

\* the prompt_file texts handed to the guard directly
GuardRequests ==
    { <<"p.txt">>, <<"..", ".codex", "p.txt">>, <<"..", "..", "etc", "passwd">>, Passwd,
      <<"evil">>, <<"missing.txt">>, <<"h.txt">>, <<"/", "home", ".codex", "h.txt">>,
      DataRoot \o <<"h.txt">>, <<>> }

NoCall == [base |-> NoPath, req |-> NoPath, res |-> Err("none")]
NoOp == [op |-> "none", name |-> "", out |-> None, config |-> None]

QueryNames == Names \cup {"ghost"}

(***************************************************************************)
(* Specifications                                                          *)
(***************************************************************************)
\* the parts of the state a specification does not exercise stay as they start
NoPolicy == [called |-> FALSE, ok |-> FALSE, policy |-> None]
NoCheck == [checked |-> FALSE, can |-> FALSE, at |-> <<>>, marks |-> 0]
NoDir == [status |-> "missing", entries |-> {}]
NoFound == [run |-> "none", out |-> <<>>]
NoSetQuery == [called |-> FALSE, q |-> <<>>, agents |-> <<>>]

PermQuiet == permInput = None /\ policy = NoPolicy
SpawnQuiet == metadata = <<>> /\ marks = 0 /\ spawn = NoCheck
PromptQuiet ==
    projDir = NoDir /\ homeDir = None /\ exclude = {} /\ discovered = NoFound /\ discoveredPrev = NoFound
PopupQuiet == query = <<>> /\ rows = <<>> /\ lastCall = NoSetQuery
RegQuiet ==
    /\ world = [homeLinked |-> FALSE, projExists |-> TRUE, envHome |-> TRUE, dirsHome |-> TRUE]
    /\ projToml = [status |-> "missing", entries |-> <<>>]
    /\ homeToml = [status |-> "missing", entries |-> <<>>]
    /\ pc = "start" /\ agents = <<>> /\ agents_dir = None
    /\ guard = [base |-> <<>>, req |-> <<>>, res |-> [ok |-> FALSE, path |-> <<>>, err |-> "none"]]
    /\ reads = {} /\ passed = {}
    /\ last = [op |-> "none", name |-> "", out |-> None, config |-> None]

Idle ==
    /\ pc = "start"
    /\ agents = EmptyMap
    /\ agents_dir = None
    /\ guard = NoCall
    /\ reads = {}
    /\ passed = {}
    /\ last = NoOp

\* the process starts in some world with some pair of agents.toml files; a
\* root that does not exist holds no file
Init ==
    /\ world \in Worlds
    /\ projToml \in TomlsUpTo(MaxEntries)
    /\ homeToml \in TomlsUpTo(MaxEntries - Size(projToml))
    /\ ~world.projExists => projToml = MissingToml
    /\ ~world.envHome => homeToml = MissingToml
    /\ Idle
    /\ PermQuiet /\ SpawnQuiet /\ PromptQuiet /\ PopupQuiet

\* AgentRegistry::new
New ==
    /\ pc = "start"
    /\ pc' = "built"
    /\ agents' = NewAgents(world, projToml, homeToml)
    /\ agents_dir' = NewAgentsDir(world)
    /\ passed' = passed \cup LoadPassed(world, ProjectRoot, projToml)
                         \cup (IF world.envHome THEN LoadPassed(world, HomeRoot, homeToml) ELSE {})
    /\ reads' = reads \cup LoadReads(world, ProjectRoot, projToml)
                       \cup (IF world.envHome THEN LoadReads(world, HomeRoot, homeToml) ELSE {})
    /\ UNCHANGED <<world, projToml, homeToml, guard, last>>
    /\ UNCHANGED <<permVars, spawnVars, promptVars, popupVars>>

\* AgentRegistry::get_system_prompt(name) on the built registry
GetSystemPrompt(name) ==
    /\ pc = "built"
    /\ last' = [op |-> "get_system_prompt", name |-> name,
                out |-> Some(get_system_prompt(agents, name)), config |-> None]
    /\ UNCHANGED <<world, projToml, homeToml, pc, agents, agents_dir, guard, reads, passed>>
    /\ UNCHANGED <<permVars, spawnVars, promptVars, popupVars>>

\* AgentConfig::get_prompt on a clone of a registry entry, with the
\* registry's base directory
GetPrompt(name) ==
    /\ pc = "built"
    /\ name \in DOMAIN agents
    /\ LET r == get_prompt(world, agents[name], agents_dir)
       IN  /\ last' = [op |-> "get_prompt", name |-> name, out |-> r.out, config |-> Some(r.config)]
           /\ reads' = reads \cup r.read
    /\ UNCHANGED <<world, projToml, homeToml, pc, agents, agents_dir, guard, passed>>
    /\ UNCHANGED <<permVars, spawnVars, promptVars, popupVars>>

Next ==
    \/ New
    \/ \E name \in QueryNames : GetSystemPrompt(name)
    \/ \E name \in Names : GetPrompt(name)

Spec == Init /\ [][Next]_vars

\* the guard on its own: a world, then calls of validate_prompt_path
InitGuard ==
    /\ world \in Worlds
    /\ projToml = MissingToml
    /\ homeToml = MissingToml
    /\ Idle
    /\ PermQuiet /\ SpawnQuiet /\ PromptQuiet /\ PopupQuiet

CallValidatePromptPath(base_dir, prompt_file) ==
    /\ LET res == ValidatePromptPath(world, base_dir, prompt_file)
       IN  /\ guard' = [base |-> base_dir, req |-> prompt_file, res |-> res]
           /\ passed' = IF res.ok THEN passed \cup {res.path} ELSE passed
    /\ UNCHANGED <<world, projToml, homeToml, pc, agents, agents_dir, reads, last>>
    /\ UNCHANGED <<permVars, spawnVars, promptVars, popupVars>>

NextGuard ==
    \E base_dir \in {ProjectRoot, HomeRoot}, prompt_file \in GuardRequests :
        CallValidatePromptPath(base_dir, prompt_file)

SpecGuard == InitGuard /\ [][NextGuard]_vars

(***************************************************************************)
(* Properties                                                              *)
(***************************************************************************)
Built == pc = "built"

\* exactly one of prompt / prompt_file is set
ExactlyOne(config) == IsSome(config.prompt) # IsSome(config.prompt_file)

\* the names an agents.toml validly defines
ValidNames(toml) ==
    IF toml.status = "ok" THEN { n \in DOMAIN toml.entries : ExactlyOne(toml.entries[n]) } ELSE {}

\* a root's definition of a name, as the load resolves it
ProjectDefinition(n) == LoadEntry(world, ProjectRoot, projToml.entries[n])
PersonalDefinition(n) == LoadEntry(world, HomeRoot, homeToml.entries[n])

\* C1: every agent name validly defined in both the project and the personal
\* agents.toml is held by the built registry with the project definition.
C1_ProjectWins ==
    Built =>
        \A n \in ValidNames(projToml) \cap ValidNames(homeToml) :
            n \in DOMAIN agents /\ agents[n] = ProjectDefinition(n)

C1_Witness ==
    /\ Built
    /\ \E n \in ValidNames(projToml) \cap ValidNames(homeToml) :
          /\ ProjectDefinition(n) # PersonalDefinition(n)
          /\ agents[n] = ProjectDefinition(n)

\* the last call of the guard, as the claims about it name its parts
Called == guard # NoCall
Candidate == Canonicalize(FS(world), Join(guard.base, guard.req))
CanonicalBase == Canonicalize(FS(world), guard.base)
\* the canonical personal root, None when no home directory can be determined
CanonicalPersonal ==
    IF IsNone(DirsHomeDir(world)) THEN None
    ELSE Some(Canonicalize(FS(world), Unwrap(DirsHomeDir(world)) \o <<".codex">>))
Within(p, root) == root # NoPath /\ StartsWith(p, root)
InsideBase == Candidate # NoPath /\ Within(Candidate, CanonicalBase)
InsidePersonal ==
    Candidate # NoPath /\ IsSome(CanonicalPersonal) /\ Within(Candidate, Unwrap(CanonicalPersonal))

\* C2: validate_prompt_path fails with a security error whenever the
\* candidate does not canonicalize or its canonical form lies outside both
\* the canonical base_dir and the personal ~/.codex root.
C2_OutsideIsSecurityError ==
    (Called /\ ~InsideBase /\ ~InsidePersonal) =>
        (~guard.res.ok /\ guard.res.err = "security")

\* C3: validate_prompt_path accepts every requested path whose canonical
\* form is the canonical base_dir, the canonical personal root or a
\* descendant of either, also when the personal root is a symbolic link and
\* when no home directory can be determined.
C3_InsideIsAccepted ==
    (Called /\ (InsideBase \/ InsidePersonal)) =>
        (guard.res.ok /\ guard.res.path = Candidate)

\* C4: the content of a prompt_file is read only from a path the guard has
\* passed, in the bulk load and in get_prompt alike.
C4_ReadOnlyAfterGuard == reads \subseteq passed

\* C5 as stated: with general validly defined in the personal agents.toml
\* and not in the project one, the registry still holds the built-in general.
C5_BuiltinKept ==
    (Built /\ "general" \in ValidNames(homeToml) \ ValidNames(projToml)) =>
        agents["general"] = DefaultAgent

\* C5 amended: a personal definition never replaces a project definition,
\* but it does replace the built-in: with general validly defined in the
\* personal agents.toml and not in the project one, the registry holds the
\* personal definition of general.
C5_PersonalShadowsBuiltin ==
    Built =>
        /\ "general" \in ValidNames(homeToml) \ ValidNames(projToml) =>
              agents["general"] = PersonalDefinition("general")
        /\ \A n \in ValidNames(projToml) : agents[n] = ProjectDefinition(n)

C5_Witness ==
    /\ Built
    /\ "general" \in ValidNames(homeToml) \ ValidNames(projToml)
    /\ agents["general"] = PersonalDefinition("general")
    /\ agents["general"] # DefaultAgent

\* a root that is missing or holds no entry
RootEmpty(toml) == toml.status = "missing" \/ toml.entries = EmptyMap

\* C6: every built registry has an entry named general; with both roots
\* empty or missing it carries the built-in default prompt.
C6_GeneralAlwaysPresent ==
    Built =>
        /\ "general" \in DOMAIN agents
        /\ (RootEmpty(projToml) /\ RootEmpty(homeToml)) =>
              agents["general"].prompt = Some(DefaultPrompt)

C6_Witness ==
    /\ Built
    /\ RootEmpty(projToml) /\ RootEmpty(homeToml)
    /\ agents = ("general" :> DefaultAgent)

\* C7: when the two files validly define disjoint sets of names, the built
\* registry holds every agent of both, and general.
C7_DisjointUnion ==
    (Built /\ ValidNames(projToml) \cap ValidNames(homeToml) = {}) =>
        /\ DOMAIN agents = ValidNames(projToml) \cup ValidNames(homeToml) \cup {"general"}
        /\ \A n \in ValidNames(projToml) : agents[n] = ProjectDefinition(n)
        /\ \A n \in ValidNames(homeToml) : agents[n] = PersonalDefinition(n)

C7_Witness ==
    /\ Built
    /\ ValidNames(projToml) # {} /\ ValidNames(homeToml) # {}
    /\ ValidNames(projToml) \cap ValidNames(homeToml) = {}
    /\ DOMAIN agents = ValidNames(projToml) \cup ValidNames(homeToml) \cup {"general"}

\* the names a file that parses defines with none or both of the fields
InvalidNames(toml) ==
    IF toml.status = "ok" THEN { n \in DOMAIN toml.entries : ~ExactlyOne(toml.entries[n]) } ELSE {}

\* C8: validate succeeds exactly when one and only one of prompt /
\* prompt_file is set; the load leaves out an entry that fails it and still
\* loads the valid entries of the same file.
C8_InvalidEntryDropped ==
    /\ \A toml \in {projToml, homeToml} : \A n \in DOMAIN toml.entries :
          validate(toml.entries[n]) <=> ExactlyOne(toml.entries[n])
    /\ Built =>
          /\ \A n \in InvalidNames(projToml) \ (ValidNames(homeToml) \cup {"general"}) :
                n \notin DOMAIN agents
          /\ \A n \in InvalidNames(homeToml) \ (ValidNames(projToml) \cup {"general"}) :
                n \notin DOMAIN agents
          /\ \A n \in (InvalidNames(projToml) \cap {"general"}) \ ValidNames(homeToml) :
                agents[n] = DefaultAgent
          /\ \A n \in ValidNames(projToml) :
                n \in DOMAIN agents /\ agents[n] = ProjectDefinition(n)
          /\ \A n \in ValidNames(homeToml) \ ValidNames(projToml) :
                n \in DOMAIN agents /\ agents[n] = PersonalDefinition(n)

C8_Witness ==
    /\ Built
    /\ \E bad \in InvalidNames(projToml), good \in ValidNames(projToml) :
          /\ IsSome(projToml.entries[bad].prompt) /\ IsSome(projToml.entries[bad].prompt_file)
          /\ bad \notin DOMAIN agents
          /\ agents[good] = ProjectDefinition(good)

\* an agents.toml that is missing, unreadable or malformed
Failing(toml) == toml.status # "ok"

\* C9: AgentRegistry::new has no outcome but a built registry; a root whose
\* agents.toml is missing, unreadable or malformed contributes nothing, and
\* the registry still holds general and every valid entry of the other root.
C9_FailingRootContributesNothing ==
    /\ pc \in {"start", "built"}
    /\ (Built /\ Failing(projToml)) =>
          /\ DOMAIN agents = ValidNames(homeToml) \cup {"general"}
          /\ \A n \in ValidNames(homeToml) : agents[n] = PersonalDefinition(n)
    /\ (Built /\ Failing(homeToml)) =>
          /\ DOMAIN agents = ValidNames(projToml) \cup {"general"}
          /\ \A n \in ValidNames(projToml) : agents[n] = ProjectDefinition(n)

C9_Witness ==
    /\ Built
    /\ projToml.status = "malformed" /\ projToml.entries # EmptyMap
    /\ ValidNames(homeToml) # {}
    /\ DOMAIN agents = ValidNames(homeToml) \cup {"general"}

Asked == last.op = "get_system_prompt"
HasPrompt(n) == n \in DOMAIN agents /\ IsSome(agents[n].prompt)

\* C10 as stated: get_system_prompt returns the named agent's prompt when it
\* has one; otherwise, the agent unknown or without a prompt, general's
\* prompt; the literal default only when general has no prompt either.
C10_FallsBackToGeneral ==
    Asked =>
        last.out = Some(IF HasPrompt(last.name) THEN Unwrap(agents[last.name].prompt)
                        ELSE IF HasPrompt("general") THEN Unwrap(agents["general"].prompt)
                        ELSE FallbackPrompt)

\* C10 amended: get_system_prompt returns the named agent's prompt when it
\* has one; for an unknown agent it falls back to general's prompt; it
\* returns the literal default when the agent is present without a prompt,
\* or is unknown and general has no prompt.
C10_FallbackOnlyWhenUnknown ==
    Asked =>
        last.out = Some(IF HasPrompt(last.name) THEN Unwrap(agents[last.name].prompt)
                        ELSE IF last.name \in DOMAIN agents THEN FallbackPrompt
                        ELSE IF HasPrompt("general") THEN Unwrap(agents["general"].prompt)
                        ELSE FallbackPrompt)

C10_Witness ==
    /\ Asked
    /\ last.name \in DOMAIN agents /\ last.name # "general"
    /\ ~HasPrompt(last.name)
    /\ HasPrompt("general")
    /\ last.out = Some(FallbackPrompt)

(***************************************************************************)
(* AgentConfig::permissions_policy on its own                              *)
(***************************************************************************)
\* the texts tried, each by the name of its lower-case, unpadded form
PermissionTexts ==
    ("read-only" :> <<"r", "e", "a", "d", "-", "o", "n", "l", "y">>)
    @@ ("readonly" :> <<"r", "e", "a", "d", "o", "n", "l", "y">>)
    @@ ("danger-full-access" :> <<"d", "a", "n", "g", "e", "r", "-", "f", "u", "l", "l", "-", "a", "c", "c", "e", "s", "s">>)
    @@ ("dangerfullaccess" :> <<"d", "a", "n", "g", "e", "r", "f", "u", "l", "l", "a", "c", "c", "e", "s", "s">>)
    @@ ("workspace-write" :> <<"w", "o", "r", "k", "s", "p", "a", "c", "e", "-", "w", "r", "i", "t", "e">>)
    @@ ("workspacewrite" :> <<"w", "o", "r", "k", "s", "p", "a", "c", "e", "w", "r", "i", "t", "e">>)
    @@ ("workspace-write+network" :> <<"w", "o", "r", "k", "s", "p", "a", "c", "e", "-", "w", "r", "i", "t", "e", "+", "n", "e", "t", "w", "o", "r", "k">>)
    @@ ("workspace-write-network" :> <<"w", "o", "r", "k", "s", "p", "a", "c", "e", "-", "w", "r", "i", "t", "e", "-", "n", "e", "t", "w", "o", "r", "k">>)
    @@ ("workspace-write:network" :> <<"w", "o", "r", "k", "s", "p", "a", "c", "e", "-", "w", "r", "i", "t", "e", ":", "n", "e", "t", "w", "o", "r", "k">>)
    @@ ("workspacewrite+network" :> <<"w", "o", "r", "k", "s", "p", "a", "c", "e", "w", "r", "i", "t", "e", "+", "n", "e", "t", "w", "o", "r", "k">>)
    @@ ("inherit" :> <<"i", "n", "h", "e", "r", "i", "t">>)
    @@ ("" :> <<>>)
    @@ ("totally-unknown" :> <<"t", "o", "t", "a", "l", "l", "y", "-", "u", "n", "k", "n", "o", "w", "n">>)
    @@ ("read only" :> <<"r", "e", "a", "d", " ", "o", "n", "l", "y">>)
    @@ ("read-only+network" :> <<"r", "e", "a", "d", "-", "o", "n", "l", "y", "+", "n", "e", "t", "w", "o", "r", "k">>)
    @@ ("workspacewrite-network" :> <<"w", "o", "r", "k", "s", "p", "a", "c", "e", "w", "r", "i", "t", "e", "-", "n", "e", "t", "w", "o", "r", "k">>)
    @@ ("full-access" :> <<"f", "u", "l", "l", "-", "a", "c", "c", "e", "s", "s">>)

LowerToUpper == [c \in {UpperToLower[u] : u \in DOMAIN UpperToLower} |->
                   CHOOSE u \in DOMAIN UpperToLower : UpperToLower[u] = c]

Upper(s) == [i \in DOMAIN s |-> IF s[i] \in DOMAIN LowerToUpper THEN LowerToUpper[s[i]] ELSE s[i]]

\* a text as the configuration file spells it: in a case and with padding
Spelled(label, casing, pad) ==
    LET t == PermissionTexts[label]
        cased == IF casing = "upper" THEN Upper(t)
                 ELSE IF casing = "capital" /\ t # <<>> THEN Upper(<<Head(t)>>) \o Tail(t)
                 ELSE t
    IN  (IF pad \in {"lead", "both"} THEN <<" ">> ELSE <<>>)
        \o cased
        \o (IF pad \in {"trail", "both"} THEN <<"\t", " ">> ELSE <<>>)

\* permInput: None for an absent permissions field, or how the text is spelled
PermInputs ==
    {None} \cup { Some([label |-> l, casing |-> c, pad |-> p]) :
                    l \in DOMAIN PermissionTexts,
                    c \in {"lower", "upper", "capital"},
                    p \in {"none", "lead", "trail", "both"} }

PermissionsField(inp) ==
    IF IsNone(inp) THEN None
    ELSE Some(Spelled(Unwrap(inp).label, Unwrap(inp).casing, Unwrap(inp).pad))

InitPerm ==
    /\ permInput \in PermInputs
    /\ policy = NoPolicy
    /\ RegQuiet /\ SpawnQuiet /\ PromptQuiet /\ PopupQuiet

\* AgentConfig::permissions_policy on a config with that permissions field
CallPermissionsPolicy ==
    /\ ~policy.called
    /\ LET r == permissions_policy(AgentConfig(Some("Inline"), None, None, PermissionsField(permInput)))
       IN  policy' = [called |-> TRUE, ok |-> r.ok, policy |-> r.policy]
    /\ UNCHANGED <<permInput, regVars, spawnVars, promptVars, popupVars>>

NextPerm == CallPermissionsPolicy

SpecPerm == InitPerm /\ [][NextPerm]_vars

\* what the vocabulary gives for a text, by its lower-case, unpadded form
Answer(ok, p) == [called |-> TRUE, ok |-> ok, policy |-> p]
VocabularyAnswer(label) ==
    IF label \in {"read-only", "readonly"} THEN Answer(TRUE, Some(ReadOnly))
    ELSE IF label \in {"danger-full-access", "dangerfullaccess"} THEN Answer(TRUE, Some(DangerFullAccess))
    ELSE IF label \in {"workspace-write", "workspacewrite"} THEN Answer(TRUE, Some(WorkspaceWrite(FALSE)))
    ELSE IF label \in {"workspace-write+network", "workspace-write-network",
                       "workspace-write:network", "workspacewrite+network"}
    THEN Answer(TRUE, Some(WorkspaceWrite(TRUE)))
    ELSE IF label \in {"", "inherit"} THEN Answer(TRUE, None)
    ELSE Answer(FALSE, None)

\* C11: permissions_policy maps the text, trimmed and lower-cased, by the
\* fixed vocabulary; absent, empty or inherit is no override; every other
\* text is an error, never a policy.
C11_VocabularyExact ==
    policy.called =>
        policy = (IF IsNone(permInput) THEN Answer(TRUE, None)
                  ELSE VocabularyAnswer(Unwrap(permInput).label))

C11_Witness ==
    /\ policy.called
    /\ IsSome(permInput)
    /\ Unwrap(permInput).label = "workspace-write:network"
    /\ Unwrap(permInput).casing = "upper"
    /\ Unwrap(permInput).pad = "both"
    /\ policy.policy = Some(WorkspaceWrite(TRUE))

(***************************************************************************)
(* The recursion guard: can_spawn_agents and mark_as_agent_context on a    *)
(* caller-owned metadata map (agent.rs 358-366).                           *)
(***************************************************************************)
MaxMarks == 2

MetaKeys == {"is_agent", "task", "depth"}
MetaValues == {"true", "false"}
MetadataMaps == UNION {[ks -> MetaValues] : ks \in SUBSET MetaKeys}

\* !metadata.contains_key("is_agent"), but deciding by the stored value.
CanSpawnByValue(m) == ~("is_agent" \in DOMAIN m /\ m["is_agent"] = "true")

\* !metadata.contains_key("is_agent")
can_spawn_agents(m) == "is_agent" \notin DOMAIN m

\* metadata.insert("is_agent", "true")
mark_as_agent_context(m) == ("is_agent" :> "true") @@ m

InitSpawn ==
    /\ metadata \in MetadataMaps
    /\ marks = 0
    /\ spawn = NoCheck
    /\ RegQuiet /\ PermQuiet /\ PromptQuiet /\ PopupQuiet

MarkAsAgentContext ==
    /\ marks < MaxMarks
    /\ metadata' = mark_as_agent_context(metadata)
    /\ marks' = marks + 1
    /\ UNCHANGED <<spawn, regVars, permVars, promptVars, popupVars>>

CanSpawnAgents ==
    /\ spawn' = [checked |-> TRUE, can |-> can_spawn_agents(metadata),
                 at |-> metadata, marks |-> marks]
    /\ UNCHANGED <<metadata, marks, regVars, permVars, promptVars, popupVars>>

NextSpawn == MarkAsAgentContext \/ CanSpawnAgents
SpecSpawn == InitSpawn /\ [][NextSpawn]_vars

MaxFiles == 3

\* the bytes of the characters used in file names; String::cmp compares bytes
Byte ==
    (" " :> 32) @@ ("." :> 46) @@ (":" :> 58) @@ ("A" :> 65) @@ ("B" :> 66)
    @@ ("C" :> 67) @@ ("D" :> 68) @@ ("E" :> 69) @@ ("F" :> 70) @@ ("G" :> 71)
    @@ ("H" :> 72) @@ ("I" :> 73) @@ ("J" :> 74) @@ ("K" :> 75) @@ ("L" :> 76)
    @@ ("M" :> 77) @@ ("N" :> 78) @@ ("O" :> 79) @@ ("P" :> 80) @@ ("Q" :> 81)
    @@ ("R" :> 82) @@ ("S" :> 83) @@ ("T" :> 84) @@ ("U" :> 85) @@ ("V" :> 86)
    @@ ("W" :> 87) @@ ("X" :> 88) @@ ("Y" :> 89) @@ ("Z" :> 90) @@ ("a" :> 97)
    @@ ("b" :> 98) @@ ("c" :> 99) @@ ("d" :> 100) @@ ("e" :> 101) @@ ("f" :> 102)
    @@ ("g" :> 103) @@ ("h" :> 104) @@ ("i" :> 105) @@ ("j" :> 106) @@ ("k" :> 107)
    @@ ("l" :> 108) @@ ("m" :> 109) @@ ("n" :> 110) @@ ("o" :> 111) @@ ("p" :> 112)
    @@ ("q" :> 113) @@ ("r" :> 114) @@ ("s" :> 115) @@ ("t" :> 116) @@ ("u" :> 117)
    @@ ("v" :> 118) @@ ("w" :> 119) @@ ("x" :> 120) @@ ("y" :> 121) @@ ("z" :> 122)

\* a.name.cmp(&b.name) == Ordering::Less
LessStr(a, b) ==
    \E i \in 1..(Len(a) + 1) :
        /\ i <= Len(b)
        /\ \A j \in 1..(i - 1) : a[j] = b[j]
        /\ (i = Len(a) + 1 \/ Byte[a[i]] < Byte[b[i]])

Entry(name, node) == [name |-> name, node |-> node]

N_a_md == <<"a", ".", "m", "d">>
N_a_MD == <<"a", ".", "M", "D">>
N_b_md == <<"b", ".", "m", "d">>
N_c_txt == <<"c", ".", "t", "x", "t">>
N_d_md == <<"d", ".", "m", "d">>
N_e_md == <<"e", ".", "m", "d">>
N_f_md == <<"f", ".", "m", "d">>
N_dot_md == <<".", "m", "d">>

\* the entries the project prompts directory may hold
ProjectCatalogue ==
    { Entry(N_a_md, File(Some("A one"))),
      Entry(N_a_MD, File(Some("A upper"))),
      Entry(N_b_md, File(Some("B"))),
      Entry(N_c_txt, File(Some("C"))),
      Entry(N_d_md, Dir),
      Entry(N_e_md, File(None)),
      Entry(N_f_md, Link(<<"/", "data", "f.md">>)),
      Entry(N_dot_md, File(Some("hidden"))) }

\* the entries the personal prompts directory may hold
PersonalCatalogue ==
    { Entry(N_a_md, File(Some("A two"))),
      Entry(N_a_MD, File(Some("A upper"))),
      Entry(N_b_md, File(Some("B"))),
      Entry(N_e_md, File(None)) }

DirUnreadable(catalogue) ==
    [status |-> "unreadable", entries |-> {e \in catalogue : e.name = N_a_md}]

DirsUpTo(catalogue, n) ==
    {[status |-> "ok", entries |-> es] : es \in {l \in SUBSET catalogue : Cardinality(l) <= n}}
        \cup (IF n > 0 THEN {DirUnreadable(catalogue)} ELSE {})

Excludes == {{}, {<<"a">>}}

\* project_prompts_dir
project_prompts_dir(root) == root \o <<".codex", "prompts">>

PersonalPromptsDir == HomeRoot \o <<"prompts">>

LastDot(f) ==
    LET dots == {i \in DOMAIN f : f[i] = "."}
    IN  IF dots = {} THEN 0 ELSE CHOOSE i \in dots : \A j \in dots : j <= i

\* Path::extension: none without a dot, or when the only dot leads the name
Extension(f) ==
    IF LastDot(f) <= 1 THEN None ELSE Some(SubSeq(f, LastDot(f) + 1, Len(f)))

\* Path::file_stem: the whole name in those cases, else the part before the
\* last dot
FileStem(f) ==
    IF LastDot(f) <= 1 THEN Some(f) ELSE Some(SubSeq(f, 1, LastDot(f) - 1))

IsMd(f) == IsSome(Extension(f)) /\ EqIgnoreAsciiCase(Unwrap(Extension(f)), <<"m", "d">>)

CustomPrompt(name, path, content) == [name |-> name, path |-> path, content |-> content]

\* one turn of the while-let loop: the prompt pushed for entry e, if any
Pushed(dirPath, e, excl) ==
    IF e.node.kind # "file" THEN None
    ELSE IF ~IsMd(e.name) THEN None
    ELSE IF IsNone(FileStem(e.name)) THEN None
    ELSE IF Unwrap(FileStem(e.name)) \in excl THEN None
    ELSE IF IsNone(e.node.text) THEN None
    ELSE Some(CustomPrompt(Unwrap(FileStem(e.name)), Append(dirPath, e.name),
                           Unwrap(e.node.text)))

RECURSIVE Collected(_, _, _)
Collected(dirPath, order, excl) ==
    IF order = <<>> THEN <<>>
    ELSE Collected(dirPath, Front(order), excl) \o Pushed(dirPath, order[Len(order)], excl)

\* where a stable sort puts x in an already sorted list: after every element
\* that is not greater
InsertByName(sorted, x) ==
    LET k == Cardinality({i \in DOMAIN sorted : ~LessStr(x.name, sorted[i].name)})
    IN  SubSeq(sorted, 1, k) \o <<x>> \o SubSeq(sorted, k + 1, Len(sorted))

\* out.sort_by(|a, b| a.name.cmp(&b.name)) left out
Unsorted(out) == out

\* out.sort_by(|a, b| a.name.cmp(&b.name)): a stable sort
RECURSIVE SortByName(_)
SortByName(out) ==
    IF out = <<>> THEN <<>>
    ELSE InsertByName(SortByName(Front(out)), out[Len(out)])

\* the orders in which read_dir may hand out the entries
Orders(S) ==
    {o \in [1..Cardinality(S) -> S] : \A i, j \in DOMAIN o : o[i] = o[j] => i = j}

\* discover_prompts_in_excluding, for one enumeration order of the directory
discover_prompts_in_excluding(dirPath, d, order, excl) ==
    IF d.status # "ok" THEN <<>>
    ELSE SortByName(Collected(dirPath, order, excl))

\* for p in project { by_name.insert(p.name, p) }
RECURSIVE InsertAll(_, _)
InsertAll(by_name, ps) ==
    IF ps = <<>> THEN by_name
    ELSE LET m == InsertAll(by_name, Front(ps))
             q == ps[Len(ps)]
         IN  (q.name :> q) @@ m

\* the personal loop written with insert: a personal prompt replaces the
\* project's
OverwriteAll(by_name, ps) == InsertAll(by_name, ps)

\* for p in personal { by_name.entry(p.name).or_insert(p) }
RECURSIVE OrInsertAll(_, _)
OrInsertAll(by_name, ps) ==
    IF ps = <<>> THEN by_name
    ELSE LET m == OrInsertAll(by_name, Front(ps))
             q == ps[Len(ps)]
         IN  m @@ (q.name :> q)

\* the map after both loops
ByName(project, personal) == OrInsertAll(InsertAll(<<>>, project), personal)

Values(by_name) == {by_name[n] : n \in DOMAIN by_name}

InitPrompts ==
    /\ \E n \in 0..MaxFiles :
        /\ projDir \in DirsUpTo(ProjectCatalogue, n) \cup {NoDir}
        /\ homeDir \in {None} \cup {Some(d) : d \in DirsUpTo(PersonalCatalogue, MaxFiles - n) \cup {NoDir}}
    /\ exclude \in Excludes
    /\ discovered = NoFound
    /\ discoveredPrev = NoFound
    /\ RegQuiet /\ PermQuiet /\ SpawnQuiet /\ PopupQuiet

\* discover_prompts_in_excluding on the project or on the personal directory
DiscoverPromptsIn ==
    \E which \in {"project"} \cup (IF IsSome(homeDir) THEN {"personal"} ELSE {}) :
        LET d == IF which = "project" THEN projDir ELSE Unwrap(homeDir)
            dirPath == IF which = "project" THEN project_prompts_dir(Cwd)
                       ELSE PersonalPromptsDir
        IN  \E order \in Orders(d.entries) :
                /\ discovered' = [run |-> which,
                                  out |-> discover_prompts_in_excluding(dirPath, d, order, exclude)]
                /\ discoveredPrev' = discovered
                /\ UNCHANGED <<projDir, homeDir, exclude, regVars, permVars, spawnVars, popupVars>>

\* discover_project_and_personal_prompts
DiscoverProjectAndPersonal ==
    \E po \in Orders(projDir.entries) :
        \E ho \in (IF IsSome(homeDir) THEN Orders(Unwrap(homeDir).entries) ELSE {<<>>}) :
            LET project == discover_prompts_in_excluding(project_prompts_dir(Cwd), projDir, po, exclude)
                personal == IF IsSome(homeDir)
                            THEN discover_prompts_in_excluding(PersonalPromptsDir, Unwrap(homeDir), ho, exclude)
                            ELSE <<>>
                by_name == ByName(project, personal)
            IN  \E vo \in Orders(Values(by_name)) :
                    /\ discovered' = [run |-> "merged", out |-> SortByName(vo)]
                    /\ discoveredPrev' = discovered
                    /\ UNCHANGED <<projDir, homeDir, exclude, regVars, permVars, spawnVars, popupVars>>

NextPrompts == DiscoverPromptsIn \/ DiscoverProjectAndPersonal
SpecPrompts == InitPrompts /\ [][NextPrompts]_vars

\* Read off the directory itself: the entries that are prompts are the regular
\* files named <stem>.md (any casing of md, stem not empty) whose stem is not
\* excluded and whose bytes decode.
HasMdSuffix(f) ==
    /\ Len(f) > 3
    /\ f[Len(f) - 2] = "."
    /\ f[Len(f) - 1] \in {"m", "M"}
    /\ f[Len(f)] \in {"d", "D"}
StemOf(f) == SubSeq(f, 1, Len(f) - 3)
Eligible(d, excl) ==
    IF d.status # "ok" THEN {}
    ELSE {e \in d.entries :
            /\ e.node.kind = "file"
            /\ HasMdSuffix(e.name)
            /\ StemOf(e.name) \notin excl
            /\ e.node.text # None}
PromptOf(dirPath, e) == [name |-> StemOf(e.name), path |-> dirPath \o <<e.name>>, content |-> e.node.text[1]]
ProjectPrompts == {PromptOf(Cwd \o <<".codex", "prompts">>, e) : e \in Eligible(projDir, exclude)}
PersonalPrompts ==
    IF homeDir = None THEN {}
    ELSE {PromptOf(PersonalPromptsDir, e) : e \in Eligible(homeDir[1], exclude)}
NamesOf(ps) == {p.name : p \in ps}
Elements(out) == {out[i] : i \in DOMAIN out}

C18_SameListWhateverOrder ==
    (discovered.run # "none" /\ discovered.run = discoveredPrev.run) =>
        discovered.out = discoveredPrev.out

(***************************************************************************)
(* The agent popup (agent_popup.rs): query and rows of AgentPopup, and the *)
(* arguments of the latest set_query call.  ScrollState is left out.       *)
(***************************************************************************)
MaxAgents == 2

AgentInfo(name, description) == [name |-> name, description |-> description]

PopupAgents ==
    { AgentInfo(<<"g", "e", "n", "e", "r", "a", "l">>, "General purpose agent"),
      AgentInfo(<<"r", "e", "v", "i", "e", "w", "e", "r">>, "Reviews code"),
      AgentInfo(<<"B", "u", "i", "l", "d", "e", "r">>, "Builds the project") }

\* agents: &[AgentInfo], in any order, names distinct
AgentLists ==
    UNION { {l \in [1..n -> PopupAgents] : \A i, j \in 1..n : l[i] = l[j] => i = j}
            : n \in 0..MaxAgents }

\* the texts set_query is called with, each with the remainder the reader of
\* the query sees after the word agent ("-" when the query is not an agent
\* query)
Q(text, agentQuery, rem) == [text |-> text, agentQuery |-> agentQuery, rem |-> rem]
PopupQueries ==
    { Q(<<>>, FALSE, <<>>),
      Q(<<"a", "g", "e", "n", "t">>, TRUE, <<>>),
      Q(<<"a", "g", "e", "n", "t", ":">>, TRUE, <<>>),
      Q(<<"a", "g", "e", "n", "t", " ">>, TRUE, <<>>),
      Q(<<"a", "g", "e", "n", "t", " ", "r", "e", "v">>, TRUE, <<"r", "e", "v">>),
      Q(<<"a", "g", "e", "n", "t", ":", "G", "E", "N">>, TRUE, <<"G", "E", "N">>),
      Q(<<"a", "g", "e", "n", "t", " ", "b">>, TRUE, <<"b">>),
      Q(<<"a", "g", "e", "n", "t", " ", "z", "z">>, TRUE, <<"z", "z">>),
      Q(<<"r", "e", "v">>, FALSE, <<>>) }

\* str::strip_prefix
StripPrefix(str, prefix) ==
    IF Len(str) >= Len(prefix) /\ SubSeq(str, 1, Len(prefix)) = prefix
    THEN Some(SubSeq(str, Len(prefix) + 1, Len(str)))
    ELSE None

\* str::trim_start_matches with a set of characters
RECURSIVE TrimStartMatches(_, _)
TrimStartMatches(str, cs) ==
    IF str # <<>> /\ Head(str) \in cs THEN TrimStartMatches(Tail(str), cs) ELSE str

\* str::contains with a string pattern
Contains(hay, needle) ==
    \E i \in 0..(Len(hay) - Len(needle)) : SubSeq(hay, i + 1, i + Len(needle)) = needle

\* highlight_indices: the positions (from 0) of the characters of the
\* lower-cased name that occur in the needle
highlight_indices(name, query_lower) ==
    IF query_lower = <<>> THEN None
    ELSE LET name_lower == ToAsciiLowercase(name)
             hits == {i \in DOMAIN name_lower :
                        \E k \in DOMAIN query_lower : query_lower[k] = name_lower[i]}
             indices == [k \in 1..Cardinality(hits) |->
                           (CHOOSE i \in hits : Cardinality({j \in hits : j < i}) = k - 1) - 1]
         IN  IF indices = <<>> THEN None ELSE Some(indices)

GenericDisplayRow(name, match_indices, description) ==
    [name |-> name, match_indices |-> match_indices, is_current |-> FALSE,
     description |-> Some(description)]

\* the remainder computed from the query
RemainderOf(q) ==
    LET rest == StripPrefix(ToAsciiLowercase(q), <<"a", "g", "e", "n", "t">>)
    IN  IF IsSome(rest) THEN Some(TrimStartMatches(Unwrap(rest), {":", " "})) ELSE None

RECURSIVE FilterRows(_, _)
FilterRows(agentList, needle) ==
    IF agentList = <<>> THEN <<>>
    ELSE LET a == agentList[Len(agentList)]
         IN  FilterRows(Front(agentList), needle)
                \o (IF Contains(ToAsciiLowercase(a.name), needle)
                    THEN <<GenericDisplayRow(a.name, highlight_indices(a.name, needle), a.description)>>
                    ELSE <<>>)

\* the rows set_query computes once past its early return
ComputedRows(q, agentList) ==
    LET remainder == RemainderOf(q)
    IN  SortByName(
            IF remainder = None \/ remainder = Some(<<>>)
            THEN [i \in DOMAIN agentList |->
                    GenericDisplayRow(agentList[i].name, None, agentList[i].description)]
            ELSE FilterRows(agentList, Unwrap(remainder)))

InitPopup ==
    /\ query = <<>>
    /\ rows = <<>>
    /\ lastCall = NoSetQuery
    /\ RegQuiet /\ PermQuiet /\ SpawnQuiet /\ PromptQuiet

\* AgentPopup::set_query
SetQuery(q, agentList) ==
    /\ lastCall' = [called |-> TRUE, q |-> q, agents |-> agentList]
    /\ IF query = q
       THEN UNCHANGED <<query, rows>>
       ELSE /\ query' = q
            /\ rows' = ComputedRows(q, agentList)
    /\ UNCHANGED <<regVars, permVars, spawnVars, promptVars>>

NextPopup == \E q \in PopupQueries, agentList \in AgentLists : SetQuery(q.text, agentList)
SpecPopup == InitPopup /\ [][NextPopup]_vars

\* What the rows should name for an agent query: the agents of the latest
\* call whose name contains the remainder, compared without regard to case
\* (all of them when the remainder is empty).
Folded(str) == [i \in DOMAIN str |-> IF str[i] \in DOMAIN LowerToUpper THEN LowerToUpper[str[i]] ELSE str[i]]
Wanted(q, agentList) ==
    {agentList[i].name : i \in {k \in DOMAIN agentList :
        \E off \in 0..(Len(agentList[k].name) - Len(q.rem)) :
            \A j \in 1..Len(q.rem) : Folded(agentList[k].name)[off + j] = Folded(q.rem)[j]}}
LatestQuery == CHOOSE q \in PopupQueries : q.text = lastCall.q

\* C15: after every set_query call with an agent query, the rows name exactly
\* the agents of that call that match the remainder (all agents when there is
\* no remainder), each once, in ascending order of name.
C15_RowsFollowLatestCall ==
    (lastCall.called /\ LatestQuery.agentQuery) =>
        /\ {rows[i].name : i \in DOMAIN rows} = Wanted(LatestQuery, lastCall.agents)
        /\ \A i, j \in DOMAIN rows : i < j => LessStr(rows[i].name, rows[j].name)

(***************************************************************************)
(* list_agent_details (agent.rs 289-315) on the built registry.            *)
(***************************************************************************)
\* the characters of the agent names and prompt texts of the model
Chars ==
    ("general" :> <<"g", "e", "n", "e", "r", "a", "l">>)
    @@ ("reviewer" :> <<"r", "e", "v", "i", "e", "w", "e", "r">>)
    @@ ("builder" :> <<"b", "u", "i", "l", "d", "e", "r">>)
    @@ ("You are a code reviewer. Be terse." :> <<"Y", "o", "u", " ", "a", "r", "e", " ", "a", " ", "c", "o", "d", "e", " ", "r", "e", "v", "i", "e", "w", "e", "r", ".", " ", "B", "e", " ", "t", "e", "r", "s", "e", ".">>)
    @@ ("You are both." :> <<"Y", "o", "u", " ", "a", "r", "e", " ", "b", "o", "t", "h", ".">>)
    @@ ("PROJECT PROMPT" :> <<"P", "R", "O", "J", "E", "C", "T", " ", "P", "R", "O", "M", "P", "T">>)
    @@ ("HOME PROMPT" :> <<"H", "O", "M", "E", " ", "P", "R", "O", "M", "P", "T">>)
    @@ ("root:x:0:0" :> <<"r", "o", "o", "t", ":", "x", ":", "0", ":", "0">>)
    @@ (DefaultPrompt :> <<"Y", "o", "u", " ", "a", "r", "e", " ", "a", " ", "h", "e", "l", "p", "f", "u", "l", " ", "A", "I", " ", "a", "s", "s", "i", "s", "t", "a", "n", "t", ".", " ", "C", "o", "m", "p", "l", "e", "t", "e", " ", "t", "h", "e", " ", "g", "i", "v", "e", "n", " ", "t", "a", "s", "k", " ", "e", "f", "f", "i", "c", "i", "e", "n", "t", "l", "y", " ", "a", "n", "d", " ", "a", "c", "c", "u", "r", "a", "t", "e", "l", "y", ".">>)

\* str::lines().next(): the text before the first line feed, without a
\* carriage return that ends it
FirstLine(str) ==
    LET feeds == {i \in DOMAIN str : str[i] = "\n"}
        line == IF feeds = {} THEN str
                ELSE SubSeq(str, 1, (CHOOSE i \in feeds : \A j \in feeds : i <= j) - 1)
    IN  IF line # <<>> /\ line[Len(line)] = "\r" THEN Front(line) ELSE line

\* str::trim_start_matches with a string pattern: strips it as often as it leads
RECURSIVE TrimStartMatchesStr(_, _)
TrimStartMatchesStr(str, pat) ==
    IF IsSome(StripPrefix(str, pat)) THEN TrimStartMatchesStr(Unwrap(StripPrefix(str, pat)), pat)
    ELSE str

\* AgentRegistry::extract_description
extract_description(prompt) ==
    LET first_line == FirstLine(prompt)
        dots == {i \in DOMAIN first_line : first_line[i] = "."}
        desc == IF dots = {} THEN first_line
                ELSE SubSeq(first_line, 1, CHOOSE i \in dots : \A j \in dots : i <= j)
    IN  Trim(TrimStartMatchesStr(
                TrimStartMatchesStr(
                    TrimStartMatchesStr(desc, <<"Y", "o", "u", " ", "a", "r", "e", " ", "a", " ">>),
                    <<"Y", "o", "u", " ", "a", "r", "e", " ", "a", "n", " ">>),
                <<"Y", "o", "u", " ", "a", "r", "e", " ">>))

FileBasedDescription == <<"A", "g", "e", "n", "t", " ", "w", "i", "t", "h", " ", "f", "i", "l", "e", "-", "b", "a", "s", "e", "d", " ", "p", "r", "o", "m", "p", "t">>

\* the AgentInfo pushed for one registry entry
Detail(registry, name) ==
    [name |-> name,
     description |-> IF IsSome(registry[name].prompt)
                     THEN extract_description(Chars[Unwrap(registry[name].prompt)])
                     ELSE FileBasedDescription,
     is_builtin |-> (name = "general")]

\* the comparator of agents.sort_by without the built-in rule
DetailLessByName(a, b) == LessStr(Chars[a.name], Chars[b.name])

\* the comparator of agents.sort_by: built-in first, then by name
DetailLess(a, b) ==
    IF a.is_builtin /\ ~b.is_builtin THEN TRUE
    ELSE IF ~a.is_builtin /\ b.is_builtin THEN FALSE
    ELSE LessStr(Chars[a.name], Chars[b.name])

RECURSIVE SortDetails(_)
SortDetails(ds) ==
    IF ds = <<>> THEN <<>>
    ELSE LET sorted == SortDetails(Front(ds))
             x == ds[Len(ds)]
             k == Cardinality({i \in DOMAIN sorted : ~DetailLess(x, sorted[i])})
         IN  SubSeq(sorted, 1, k) \o <<x>> \o SubSeq(sorted, k + 1, Len(sorted))

\* AgentRegistry::list_agent_details, for one iteration order of the map
list_agent_details(registry, order) ==
    SortDetails([i \in DOMAIN order |-> Detail(registry, order[i])])

ListAgentDetails ==
    /\ pc = "built"
    /\ \E order \in Orders(DOMAIN agents) :
        last' = [op |-> "list_agent_details", name |-> "",
                 out |-> Some(list_agent_details(agents, order)), config |-> None]
    /\ UNCHANGED <<world, projToml, homeToml, pc, agents, agents_dir, guard, reads, passed>>
    /\ UNCHANGED <<permVars, spawnVars, promptVars, popupVars>>

NextDetails == New \/ ListAgentDetails
SpecDetails == Init /\ [][NextDetails]_vars

Alphabetical == <<"builder", "general", "reviewer">>
Rank(name) == CHOOSE i \in DOMAIN Alphabetical : Alphabetical[i] = name
Listed == last.op = "list_agent_details"

\* C16: the list has one summary per registry entry; its first element is
\* general; the elements after the first are in ascending alphabetical order
\* of name; an element carries the built-in flag exactly when it is general.
C16_GeneralFirstThenAlphabetical ==
    Listed =>
        LET out == last.out[1]
        IN  /\ Len(out) = Cardinality(DOMAIN agents)
            /\ {out[i].name : i \in DOMAIN out} = DOMAIN agents
            /\ out[1].name = "general"
            /\ \A i, j \in DOMAIN out : (1 < i /\ i < j) => Rank(out[i].name) < Rank(out[j].name)
            /\ \A i \in DOMAIN out : out[i].is_builtin <=> (out[i].name = "general")

C16_Witness ==
    /\ Listed
    /\ Len(last.out[1]) = 3
    /\ last.out[1][2].name = "builder"
    /\ last.out[1][3].name = "reviewer"
    /\ last.out[1][1].is_builtin

\* the toml entry a registry entry was loaded from, with the root it came from
Origin(n) ==
    IF n \in ValidNames(projToml) /\ n \in DOMAIN load_agents_from(world, ProjectRoot, projToml)
    THEN Some([root |-> ProjectRoot, config |-> projToml.entries[n]])
    ELSE IF world.envHome /\ n \in DOMAIN load_agents_from(world, HomeRoot, homeToml)
    THEN Some([root |-> HomeRoot, config |-> homeToml.entries[n]])
    ELSE None

\* the text of the origin's prompt_file, when the path passes the guard and
\* the file reads
ResolvedText(o) ==
    IF o.config.prompt_file = None THEN None
    ELSE IF ~ValidatePromptPath(world, o.root, o.config.prompt_file[1]).ok THEN None
    ELSE ReadToString(FS(world), ValidatePromptPath(world, o.root, o.config.prompt_file[1]).path)

\* C17: in the built registry an entry loaded from a prompt_file that passed
\* the guard and was read has the file's text as prompt and no prompt_file;
\* no entry has both fields set.
C17_FileIndirectionCleared ==
    Built =>
        \A n \in DOMAIN agents :
            /\ ~(agents[n].prompt # None /\ agents[n].prompt_file # None)
            /\ (Origin(n) # None /\ ResolvedText(Origin(n)[1]) # None) =>
                    /\ agents[n].prompt = ResolvedText(Origin(n)[1])
                    /\ agents[n].prompt_file = None

====
